---- MODULE Spec2Model ----
(***************************************************************************)
(* Model of transcript_extractor/extractor.py and main.py.                 *)
(*                                                                         *)
(* Strings are sequences of one-character strings, so that the regular     *)
(* expression search, the number formatting, the f-string concatenations   *)
(* and the newline join are computed character by character.  Hangul       *)
(* characters of the source's literals are written as their code points    *)
(* ("U+CC44" is one character).  A float of seconds is a fixed-point       *)
(* number: the integer n stands for n / Scale seconds.                     *)
(***************************************************************************)
EXTENDS Integers, Sequences, FiniteSets, TLC

VARIABLES
    input_str,      \* extract_video_id: its argument
    resolved,       \* extract_video_id: its return value, or Unset
    seconds,        \* format_timestamp: its argument (fixed point)
    stamp,          \* format_timestamp: its return value, or Unset
    pc,             \* main: where the run is
    argv,           \* sys.argv
    stdin_line,     \* what input() reads when no argument is given
    environ,        \* YOUTUBE_API_KEY of the process: <<>> unset, <<key>> set
    raw_input_value, \* main: raw_input_value
    video_id,       \* main: video_id
    translate,      \* main: translate
    pytube,         \* what the scraping provider did: <<>> not asked, <<r>>
    pyyoutube,      \* what the API provider did: <<>> not asked, <<r>>
    fetched,        \* return value of get_video_metadata: <<>> None, <<m>>
    transcript_list, \* what the transcript provider did: <<>> not asked, <<r>>
    tr_fail,        \* the entries on which translator.translate raised
    lines,          \* get_transcript: lines
    transcript,     \* main: transcript
    metadata,       \* save_to_markdown: metadata, <<>> before the call
    file_name,      \* save_to_markdown: its return value, <<>> before
    output,         \* the files of the directory output/
    calls,          \* the calls made to the external providers, in order
    ret,            \* main: its return value, <<>> is None
    exc,            \* the exception that left main, "" when none
    app             \* main.py: the state of the web application module

purevars == <<input_str, resolved, seconds, stamp>>

pipevars == <<pc, argv, stdin_line, environ, raw_input_value, video_id,
              translate, pytube, pyyoutube, fetched, transcript_list, tr_fail,
              lines, transcript, metadata, file_name, output, calls, ret, exc,
              app>>

vars == <<purevars, pipevars>>

Unset == <<"<unset>">>

(***************************************************************************)
(* Bounds of the model.                                                    *)
(***************************************************************************)
\* number of fixed-point units in one second
Scale == 10
\* longest input of extract_video_id, in tokens of UrlTokens
MaxTokens == 4
\* largest hour count among the sampled offsets
MaxHours == 123
\* longest transcript the transcript provider returns, in entries
MaxEntries == 2

(***************************************************************************)
(* Characters and strings.                                                 *)
(***************************************************************************)
NL == "\n"

Digit == <<"0", "1", "2", "3", "4", "5", "6", "7", "8", "9">>

Upper == {"A", "B", "C", "D", "E", "F", "G", "H", "I", "J", "K", "L", "M",
          "N", "O", "P", "Q", "R", "S", "T", "U", "V", "W", "X", "Y", "Z"}

Lower == {"a", "b", "c", "d", "e", "f", "g", "h", "i", "j", "k", "l", "m",
          "n", "o", "p", "q", "r", "s", "t", "u", "v", "w", "x", "y", "z"}

\* the character class [0-9A-Za-z_-] of the pattern
IdChars == {Digit[i] : i \in 1..10} \cup Upper \cup Lower \cup {"_", "-"}

\* the {11} of the pattern
IdLen == 11

\* the closing group (?:\?|&|\/|$) of the pattern, its literal alternatives
Boundary == {"?", "&", "/"}

RECURSIVE Concat(_)
\* the concatenation of a sequence of strings
Concat(ss) == IF ss = <<>> THEN <<>> ELSE Head(ss) \o Concat(Tail(ss))

RECURSIVE Join(_, _)
\* sep.join(ss)
Join(sep, ss) ==
    IF ss = <<>> THEN <<>>
    ELSE IF Len(ss) = 1 THEN Head(ss)
    ELSE Head(ss) \o sep \o Join(sep, Tail(ss))

(***************************************************************************)
(* extract_video_id: re.search of                                          *)
(*   (?:v=|\/)([0-9A-Za-z_-]{11})(?:\?|&|\/|$)                             *)
(***************************************************************************)
\* where group 1 starts when the pattern is tried at position i: 0 when the
\* opening group (?:v=|\/) does not match there
GroupStart(s, i) ==
    IF i + 1 <= Len(s) /\ s[i] = "v" /\ s[i + 1] = "=" THEN i + 2
    ELSE IF s[i] = "/" THEN i + 1
    ELSE 0

\* $ matches at the end of the string and before a newline that ends it
AtEnd(s, j) == j = Len(s) + 1 \/ (j = Len(s) /\ s[j] = NL)

\* the pattern matches with its first character at position i
MatchAt(s, i) ==
    LET g == GroupStart(s, i)
    IN  /\ g # 0
        /\ g + IdLen - 1 <= Len(s)
        /\ \A k \in g..(g + IdLen - 1) : s[k] \in IdChars
        /\ \/ AtEnd(s, g + IdLen)
           \/ (g + IdLen <= Len(s) /\ s[g + IdLen] \in Boundary)

RECURSIVE SearchFrom(_, _)
\* re.search scans the positions from left to right: the first position at
\* which the pattern matches, 0 when there is none
SearchFrom(s, i) ==
    IF i > Len(s) THEN 0
    ELSE IF MatchAt(s, i) THEN i
    ELSE SearchFrom(s, i + 1)

\* the buggy variant that scans from the right and so takes the last match
RECURSIVE SearchBack(_, _)
SearchBack(s, i) ==
    IF i < 1 THEN 0
    ELSE IF MatchAt(s, i) THEN i
    ELSE SearchBack(s, i - 1)

re_search_last(s) == SearchBack(s, Len(s))

re_search(s) == SearchFrom(s, 1)

extract_video_id(s) ==
    LET m == re_search(s)
    IN  IF m # 0
        THEN SubSeq(s, GroupStart(s, m), GroupStart(s, m) + IdLen - 1)
        ELSE s

(***************************************************************************)
(* format_timestamp                                                        *)
(***************************************************************************)
RECURSIVE Decimal(_)
\* the decimal digits of a natural number
Decimal(n) ==
    IF n < 10 THEN <<Digit[n + 1]>>
    ELSE Decimal(n \div 10) \o <<Digit[(n % 10) + 1]>>

\* the format spec 02d: at least two digits, padded with zeros on the left
Format02d(n) == IF Len(Decimal(n)) < 2 THEN <<"0">> \o Decimal(n) ELSE Decimal(n)

\* int(x) of a non-negative fixed-point x
IntOf(x) == x \div Scale

\* x // d and x % d of a non-negative fixed-point x and an integer d; the
\* quotient is a whole number of seconds, kept in fixed point
FloorDiv(x, d) == (x \div (d * Scale)) * Scale

Mod(x, d) == x % (d * Scale)

\* the variant that rounds to the nearest second instead of truncating
FormatRounded(s) ==
    LET r == ((s + (Scale \div 2)) \div Scale) * Scale
    IN  Format02d(IntOf(FloorDiv(r, 3600))) \o <<":">>
        \o Format02d(IntOf(FloorDiv(Mod(r, 3600), 60))) \o <<":">>
        \o Format02d(IntOf(Mod(r, 60)))

format_timestamp(s) ==
    LET hours   == IntOf(FloorDiv(s, 3600))
        minutes == IntOf(FloorDiv(Mod(s, 3600), 60))
        secs    == IntOf(Mod(s, 60))
    IN  Format02d(hours) \o <<":">> \o Format02d(minutes) \o <<":">> \o Format02d(secs)

(***************************************************************************)
(* Inputs of the pure functions.                                           *)
(***************************************************************************)
IdA == <<"d", "Q", "w", "4", "w", "9", "W", "g", "X", "c", "Q">>

IdB == <<"a", "_", "b", "-", "0", "1", "2", "3", "4", "5", "Z">>

UrlTokens ==
    {<<"v", "=">>, <<"/">>, <<"?">>, <<"&">>, <<"x">>, <<".">>, <<NL>>, IdA, IdB}

TokenSeqs == UNION {[1..n -> UrlTokens] : n \in 0..MaxTokens}

UrlInputs == {Concat(ts) : ts \in TokenSeqs}

HourSamples == {0, 1, 9, 10, 99, 100, MaxHours}

MinuteSamples == {0, 1, 59}

\* fixed-point offsets: every fraction of every second of the sampled minutes
SecondsInputs ==
    {(h * 3600 + m * 60) * Scale + t :
        h \in HourSamples, m \in MinuteSamples, t \in 0..(60 * Scale - 1)}

(***************************************************************************)
(* Literals of the source.                                                 *)
(***************************************************************************)
WatchPrefix ==
    <<"h", "t", "t", "p", "s", ":", "/", "/", "w", "w", "w", ".", "y", "o",
      "u", "t", "u", "b", "e", ".", "c", "o", "m", "/", "w", "a", "t", "c",
      "h", "?", "v", "=">>

\* " (한글 번역) "
KoLabel == <<" ", "(", "U+D55C", "U+AE00", " ", "U+BC88", "U+C5ED", ")", " ">>

\* "오류 발생"
KoError == <<"U+C624", "U+B958", " ", "U+BC1C", "U+C0DD">>

\* "**채널명:** "
ChannelLabel == <<"*", "*", "U+CC44", "U+B110", "U+BA85", ":", "*", "*", " ">>

UrlLabel == <<"*", "*", "U", "R", "L", ":", "*", "*", " ">>

Rule == <<"-", "-", "-">>

\* "## 트랜스크립트"
TranscriptHeading ==
    <<"#", "#", " ", "U+D2B8", "U+B79C", "U+C2A4", "U+D06C", "U+B9BD", "U+D2B8">>

Unknown == <<"U", "n", "k", "n", "o", "w", "n">>

OptT == <<"-", "t">>

OptTranslate == <<"-", "-", "t", "r", "a", "n", "s", "l", "a", "t", "e">>

\* the characters sanitize_filename removes
Forbidden == {"\\", "/", "*", "?", ":", "\"", "<", ">", "|"}

\* the characters str.strip removes
Whitespace == {" ", "\t", NL, "\r"}

\* a value is true in a condition when it is neither None nor empty
Truthy(s) == s # <<>>

(***************************************************************************)
(* get_transcript                                                          *)
(***************************************************************************)
base_url(vid) == WatchPrefix \o vid

\* [HH:MM:SS](base_url&t=<int seconds>s)
timestamp_link(vid, entry) ==
    <<"[">> \o format_timestamp(entry.start) \o <<"]", "(">> \o base_url(vid)
    \o <<"&", "t", "=">> \o Decimal(IntOf(entry.start)) \o <<"s", ")">>

\* the line of the entry's own text
OriginalLine(vid, entry) == timestamp_link(vid, entry) \o <<" ">> \o entry.text

\* what the translation provider answers for a text
Ko(text) == <<"K", "O", ":">> \o text

\* the variant in which a failed translation adds no line
TranslationLinesNoPlaceholder(vid, entry, failed) ==
    IF failed THEN <<>>
    ELSE <<timestamp_link(vid, entry) \o KoLabel \o Ko(entry.text)>>

\* the try/except around translator.translate: the translated line, or the
\* line of the error placeholder when the call raised
TranslationLines(vid, entry, failed) ==
    IF failed
    THEN <<timestamp_link(vid, entry) \o KoLabel \o KoError>>
    ELSE <<timestamp_link(vid, entry) \o KoLabel \o Ko(entry.text)>>

RECURSIVE BuildLines(_, _, _, _, _)
\* the loop over transcript_list from entry i on
BuildLines(vid, entries, i, tr, fails) ==
    IF i > Len(entries) THEN <<>>
    ELSE <<OriginalLine(vid, entries[i])>>
         \o (IF tr THEN TranslationLines(vid, entries[i], i \in fails) ELSE <<>>)
         \o BuildLines(vid, entries, i + 1, tr, fails)

\* the variant that translates whatever the flag says
get_transcript_lines_always(vid, entries, tr, fails) ==
    BuildLines(vid, entries, 1, TRUE, fails)

\* the list lines at the end of the loop
get_transcript_lines(vid, entries, tr, fails) ==
    BuildLines(vid, entries, 1, tr, fails)

\* the calls the loop makes to the translation provider
TranslatorCalls(entries, tr) ==
    IF tr
    THEN <<[fn |-> "Translator", arg |-> <<>>]>>
         \o [i \in 1..Len(entries) |-> [fn |-> "translate", arg |-> entries[i].text]]
    ELSE <<>>

(***************************************************************************)
(* get_video_metadata                                                      *)
(***************************************************************************)
\* the variant that returns from the first attempt never
PrimaryNeverSucceeds(r) == FALSE

\* the first attempt returns its metadata when nothing raised and the title
\* is not empty
PrimarySucceeds(r) == r.kind = "ok" /\ Truthy(r.title)

\* the variant that asks only whether the variable is set
KeySet(env) == env # <<>>

\* if api_key: the variable is set and not empty
KeyTruthy(env) == env # <<>> /\ Truthy(env[1])

\* the second attempt returns its metadata when nothing raised and
\* response.items is not empty
SecondarySucceeds(r) == r.kind = "ok" /\ r.items # <<>>

(***************************************************************************)
(* sanitize_filename, save_to_markdown                                     *)
(***************************************************************************)
sanitize_filename(name) == SelectSeq(name, LAMBDA c : c \notin Forbidden)

\* now.strftime("%Y%m%d_%H%M%S")
strftime(now) ==
    Decimal(now.Y) \o Format02d(now.mo) \o Format02d(now.d) \o <<"_">>
    \o Format02d(now.H) \o Format02d(now.M) \o Format02d(now.S)

FileNameOf(now, md) ==
    strftime(now) \o <<"_">> \o sanitize_filename(md.title) \o <<".", "m", "d">>

\* what the six writes put in the file
Document(md, text) ==
    <<"#", " ">> \o md.title \o <<NL, NL>>
    \o ChannelLabel \o md.channel \o <<NL, NL>>
    \o UrlLabel \o md.url \o <<NL, NL>>
    \o Rule \o <<NL, NL>>
    \o TranscriptHeading \o <<NL, NL>>
    \o text

(***************************************************************************)
(* main                                                                    *)
(***************************************************************************)
RECURSIVE LStrip(_)
LStrip(s) == IF s # <<>> /\ Head(s) \in Whitespace THEN LStrip(Tail(s)) ELSE s

RECURSIVE RStrip(_)
RStrip(s) ==
    IF s # <<>> /\ s[Len(s)] \in Whitespace
    THEN RStrip(SubSeq(s, 1, Len(s) - 1))
    ELSE s

Strip(s) == RStrip(LStrip(s))

\* any(arg in ('--translate', '-t') for arg in sys.argv[2:])
TranslateFlag(av) == \E i \in 3..Len(av) : av[i] \in {OptTranslate, OptT}

\* the variant that saves whatever the transcript is
ShouldSaveAlways(text) == TRUE

\* if transcript:
ShouldSave(text) == Truthy(text)

\* the variant that leaves the channel empty
DefaultMetadataNoChannel(vid) ==
    [title |-> vid, channel |-> <<>>, url |-> WatchPrefix \o vid]

\* the metadata main uses when get_video_metadata returned None
DefaultMetadata(vid) ==
    [title |-> vid, channel |-> Unknown, url |-> WatchPrefix \o vid]

\* main ends without a return statement, and the value of save_to_markdown
\* is dropped: the caller gets None
MainReturnValue(name) == <<>>

\* the names extractor.py defines at module level
ExtractorNames ==
    {"datetime", "os", "re", "sys", "urlparse", "parse_qs",
     "YouTubeTranscriptApi", "YouTube", "Translator", "extract_video_id",
     "format_timestamp", "get_transcript", "get_video_metadata",
     "sanitize_filename", "save_to_markdown", "main"}

(***************************************************************************)
(* What the run is started with and what the providers may answer.         *)
(***************************************************************************)
Prog == <<"e", "x", "t", "r", "a", "c", "t", "o", "r", ".", "p", "y">>

ShortUrl ==
    <<"h", "t", "t", "p", "s", ":", "/", "/", "y", "o", "u", "t", "u", ".",
      "b", "e", "/">> \o IdB

\* the references given as sys.argv[1]
References == {<<>>, IdA, ShortUrl}

\* what follows the reference on the command line
Options == {<<>>, <<OptT>>, <<<<"-", "q">>, OptTranslate>>}

\* the lines typed when the program asks for the reference
StdinLines == {<<" ">>, <<" ">> \o IdA \o <<" ">>}

Invocations ==
    {[argv |-> <<Prog>>, stdin |-> l] : l \in StdinLines}
    \cup {[argv |-> <<Prog, r>> \o o, stdin |-> <<>>] : r \in References, o \in Options}

\* os.getenv("YOUTUBE_API_KEY"): unset, set to the empty string, set to a key
Environments == {<<>>, << <<>> >>, << <<"k", "e", "y">> >>}

Titles == {<<>>, <<"T", "/", "1">>, <<"a", NL, "b">>}

PytubeAuthor == <<"P", "y", "C", "h">>

\* YouTube(url), yt.title, yt.author: an exception before the title is read,
\* an exception of yt.author after the title was read, or both values
PytubeOutcomes ==
    {[kind |-> "raise", title |-> <<>>, author |-> <<>>],
     [kind |-> "raise_author", title |-> <<"T", "/", "1">>, author |-> <<>>]}
    \cup {[kind |-> "ok", title |-> t, author |-> PytubeAuthor] : t \in Titles}

ApiItems ==
    {[title |-> <<"A", "?", "2">>, channelTitle |-> <<"A", "p", "i">>],
     [title |-> <<>>, channelTitle |-> <<"A", "p", "i">>]}

\* import pyyoutube, Api(...), get_video_by_id(...), response.items[0].snippet:
\* an exception anywhere in the try block, or the items of the response
PyyoutubeOutcomes ==
    {[kind |-> "raise", items |-> <<>>], [kind |-> "ok", items |-> <<>>]}
    \cup {[kind |-> "ok", items |-> <<i>>] : i \in ApiItems}
    \cup {[kind |-> "ok",
           items |-> <<[title |-> <<"A", "?", "2">>, channelTitle |-> <<"A", "p", "i">>],
                       [title |-> <<"o">>, channelTitle |-> <<"o">>]>>]}

\* entries at 59.9 s and at 3661 s, one of them of two lines
Entries ==
    {[start |-> (599 * Scale) \div 10, text |-> <<"h", "i">>],
     [start |-> 3661 * Scale, text |-> <<"h", "i">>],
     [start |-> 3661 * Scale, text |-> <<"a", NL, "b">>]}

EntryLists == UNION {[1..n -> Entries] : n \in 0..MaxEntries}

\* YouTubeTranscriptApi.get_transcript: an exception, or the list of entries
TranscriptOutcomes ==
    {[kind |-> "raise", entries |-> <<>>]}
    \cup {[kind |-> "ok", entries |-> e] : e \in EntryLists}

\* datetime.datetime.now()
Clock == {[Y |-> 2024, mo |-> 1, d |-> 2, H |-> 3, M |-> 4, S |-> s] : s \in {5, 59}}

(***************************************************************************)
(* The initial states.                                                     *)
(***************************************************************************)
PureIdle ==
    /\ input_str = <<>>
    /\ resolved = Unset
    /\ seconds = 0
    /\ stamp = Unset

PipeStart(inv, env) ==
    /\ pc = "start"
    /\ argv = inv.argv
    /\ stdin_line = inv.stdin
    /\ environ = env
    /\ raw_input_value = Unset
    /\ video_id = Unset
    /\ translate = FALSE
    /\ pytube = <<>>
    /\ pyyoutube = <<>>
    /\ fetched = <<>>
    /\ transcript_list = <<>>
    /\ tr_fail = {}
    /\ lines = <<>>
    /\ transcript = <<>>
    /\ metadata = <<>>
    /\ file_name = <<>>
    /\ output = {}
    /\ calls = <<>>
    /\ ret = <<>>
    /\ exc = ""
    /\ app = "unloaded"

Init ==
    /\ PureIdle
    /\ \E inv \in Invocations, env \in Environments : PipeStart(inv, env)

(***************************************************************************)
(* main, lines 124-134: the reference, the identifier, the flag.           *)
(***************************************************************************)
MainStart ==
    /\ pc = "start"
    /\ LET raw == IF Len(argv) < 2 THEN Strip(stdin_line) ELSE argv[2]
       IN  /\ raw_input_value' = raw
           /\ IF ~Truthy(raw)
              THEN /\ pc' = "done"
                   /\ ret' = <<>>
                   /\ UNCHANGED <<video_id, translate>>
              ELSE /\ video_id' = extract_video_id(raw)
                   /\ translate' = TranslateFlag(argv)
                   /\ pc' = "metadata_primary"
                   /\ UNCHANGED ret
    /\ UNCHANGED <<purevars, argv, stdin_line, environ, pytube, pyyoutube,
                   fetched, transcript_list, tr_fail, lines, transcript,
                   metadata, file_name, output, calls, exc, app>>

(***************************************************************************)
(* get_video_metadata, lines 65-77: the attempt with pytube.               *)
(***************************************************************************)
MetadataPrimary ==
    /\ pc = "metadata_primary"
    /\ \E r \in PytubeOutcomes :
        /\ pytube' = <<r>>
        /\ calls' = Append(calls, [fn |-> "pytube.YouTube", arg |-> WatchPrefix \o video_id])
        /\ IF PrimarySucceeds(r)
           THEN /\ fetched' = <<[title |-> r.title, channel |-> r.author,
                                 url |-> WatchPrefix \o video_id]>>
                /\ pc' = "transcript"
           ELSE /\ fetched' = <<>>
                /\ pc' = "metadata_secondary"
    /\ UNCHANGED <<purevars, argv, stdin_line, environ, raw_input_value,
                   video_id, translate, pyyoutube, transcript_list, tr_fail,
                   lines, transcript, metadata, file_name, output, ret, exc,
                   app>>

(***************************************************************************)
(* get_video_metadata, lines 80-96: the attempt with pyyoutube.            *)
(***************************************************************************)
MetadataSecondary ==
    /\ pc = "metadata_secondary"
    /\ IF KeyTruthy(environ)
       THEN \E r \in PyyoutubeOutcomes :
              /\ pyyoutube' = <<r>>
              /\ calls' = Append(calls, [fn |-> "pyyoutube.get_video_by_id", arg |-> video_id])
              /\ fetched' =
                    IF SecondarySucceeds(r)
                    THEN <<[title |-> r.items[1].title,
                            channel |-> r.items[1].channelTitle,
                            url |-> WatchPrefix \o video_id]>>
                    ELSE <<>>
       ELSE /\ fetched' = <<>>
            /\ UNCHANGED <<pyyoutube, calls>>
    /\ pc' = "transcript"
    /\ UNCHANGED <<purevars, argv, stdin_line, environ, raw_input_value,
                   video_id, translate, pytube, transcript_list, tr_fail,
                   lines, transcript, metadata, file_name, output, ret, exc,
                   app>>

(***************************************************************************)
(* main, line 137: get_transcript, lines 39-56.                            *)
(***************************************************************************)
MainTranscript ==
    /\ pc = "transcript"
    /\ \E t \in TranscriptOutcomes :
        /\ transcript_list' = <<t>>
        /\ IF t.kind = "raise"
           THEN /\ pc' = "raised"
                /\ exc' = "get_transcript"
                /\ calls' = Append(calls, [fn |-> "get_transcript", arg |-> video_id])
                /\ UNCHANGED <<tr_fail, lines, transcript>>
           ELSE \E fails \in (IF translate THEN SUBSET (1..Len(t.entries)) ELSE {{}}) :
                /\ tr_fail' = fails
                /\ lines' = get_transcript_lines(video_id, t.entries, translate, fails)
                /\ transcript' = Join(<<NL>>, lines')
                /\ calls' = Append(calls, [fn |-> "get_transcript", arg |-> video_id])
                            \o TranslatorCalls(t.entries, translate)
                /\ pc' = "save"
                /\ UNCHANGED exc
    /\ UNCHANGED <<purevars, argv, stdin_line, environ, raw_input_value,
                   video_id, translate, pytube, pyyoutube, fetched, metadata,
                   file_name, output, ret, app>>

(***************************************************************************)
(* main, lines 138-147: the default metadata and save_to_markdown,         *)
(* lines 109-120.  open() may fail with an OSError.                        *)
(***************************************************************************)
MainSave ==
    /\ pc = "save"
    /\ IF ShouldSave(transcript)
       THEN LET md == IF fetched = <<>> THEN DefaultMetadata(video_id) ELSE fetched[1]
            IN  /\ metadata' = <<md>>
                /\ \E now \in Clock, opened \in BOOLEAN :
                    IF opened
                    THEN /\ output' =
                               {f \in output : f.name # FileNameOf(now, md)}
                               \cup {[name |-> FileNameOf(now, md),
                                      content |-> Document(md, transcript)]}
                         /\ file_name' = <<FileNameOf(now, md)>>
                         /\ ret' = MainReturnValue(FileNameOf(now, md))
                         /\ pc' = "done"
                         /\ UNCHANGED exc
                    ELSE /\ pc' = "raised"
                         /\ exc' = "open"
                         /\ UNCHANGED <<output, file_name, ret>>
       ELSE /\ pc' = "done"
            /\ ret' = <<>>
            /\ UNCHANGED <<metadata, output, file_name, exc>>
    /\ UNCHANGED <<purevars, argv, stdin_line, environ, raw_input_value,
                   video_id, translate, pytube, pyyoutube, fetched,
                   transcript_list, tr_fail, lines, transcript, calls, app>>

(***************************************************************************)
(* main.py, lines 1-6: loading the web application imports the name run    *)
(* from the extractor module.  The handler get_youtube, lines 12-14, can   *)
(* be called only once the module is loaded.                               *)
(***************************************************************************)
LoadApp ==
    /\ app = "unloaded"
    /\ app' = IF "run" \in ExtractorNames THEN "serving" ELSE "ImportError"
    /\ UNCHANGED <<purevars, pc, argv, stdin_line, environ, raw_input_value,
                   video_id, translate, pytube, pyyoutube, fetched,
                   transcript_list, tr_fail, lines, transcript, metadata,
                   file_name, output, calls, ret, exc>>

Next ==
    \/ MainStart
    \/ MetadataPrimary
    \/ MetadataSecondary
    \/ MainTranscript
    \/ MainSave
    \/ LoadApp

Spec == Init /\ [][Next]_vars

(***************************************************************************)
(* Specification of extract_video_id applied to one input.                 *)
(***************************************************************************)
PipeIdle ==
    /\ PipeStart([argv |-> <<Prog>>, stdin |-> <<>>], <<>>)

InitResolve ==
    /\ input_str \in UrlInputs
    /\ resolved = Unset
    /\ seconds = 0
    /\ stamp = Unset
    /\ PipeIdle

Resolve ==
    /\ resolved = Unset
    /\ resolved' = extract_video_id(input_str)
    /\ UNCHANGED <<input_str, seconds, stamp, pipevars>>

SpecResolve == InitResolve /\ [][Resolve]_vars

(***************************************************************************)
(* Specification of format_timestamp applied to one offset.                *)
(***************************************************************************)
InitFormat ==
    /\ input_str = <<>>
    /\ resolved = Unset
    /\ seconds \in SecondsInputs
    /\ stamp = Unset
    /\ PipeIdle

Format ==
    /\ stamp = Unset
    /\ stamp' = format_timestamp(seconds)
    /\ UNCHANGED <<input_str, resolved, seconds, pipevars>>

SpecFormat == InitFormat /\ [][Format]_vars

(***************************************************************************)
(* Reading a string back: its lines, its numbers.                          *)
(***************************************************************************)
RECURSIVE SplitOn(_, _)
\* the pieces of s between the occurrences of the character c
SplitOn(s, c) ==
    IF \A i \in 1..Len(s) : s[i] # c THEN <<s>>
    ELSE LET k == CHOOSE i \in 1..Len(s) : s[i] = c /\ \A j \in 1..(i - 1) : s[j] # c
         IN  <<SubSeq(s, 1, k - 1)>> \o SplitOn(SubSeq(s, k + 1, Len(s)), c)

IsDigit(c) == \E d \in 1..10 : Digit[d] = c

DigitValue(c) == (CHOOSE d \in 1..10 : Digit[d] = c) - 1

RECURSIVE ParseNat(_)
ParseNat(ds) ==
    IF ds = <<>> THEN 0
    ELSE 10 * ParseNat(SubSeq(ds, 1, Len(ds) - 1)) + DigitValue(ds[Len(ds)])

\* the title a reader finds in the level-1 heading, the first line of a file
HeadingOf(content) ==
    LET first == SplitOn(content, NL)[1]
    IN  IF Len(first) >= 2 THEN SubSeq(first, 3, Len(first)) ELSE first

\* the number of lines a reader finds after the transcript heading and the
\* blank line that follows it
BodyLineCount(content) ==
    LET d == SplitOn(content, NL)
        h == CHOOSE i \in 1..Len(d) :
                d[i] = TranscriptHeading /\ \A j \in 1..(i - 1) : d[j] # TranscriptHeading
    IN  Len(d) - (h + 1)

(***************************************************************************)
(* What the providers did, read from the record of the run.                *)
(***************************************************************************)
\* the scraping provider returned title and channel, and the title is not empty
PrimaryReturnedTitle ==
    pytube # <<>> /\ pytube[1].kind = "ok" /\ pytube[1].title # <<>>

\* the scraping provider raised, or returned an empty title
PrimaryFailed ==
    pytube # <<>> /\ (pytube[1].kind # "ok" \/ pytube[1].title = <<>>)

\* an API credential is configured
Credential == environ # <<>> /\ environ[1] # <<>>

\* the API provider was asked and raised, or returned no item
SecondaryFailed ==
    pyyoutube # <<>> /\ (pyyoutube[1].kind = "raise" \/ pyyoutube[1].items = <<>>)

SecondaryConsulted ==
    \/ pyyoutube # <<>>
    \/ \E i \in 1..Len(calls) : calls[i].fn = "pyyoutube.get_video_by_id"

\* get_video_metadata has returned
FetchReturned == pytube # <<>> /\ pc \in {"transcript", "save", "done", "raised"}

\* the transcript provider raised, or returned no entry
TranscriptFailed ==
    transcript_list # <<>>
    /\ (transcript_list[1].kind = "raise" \/ transcript_list[1].entries = <<>>)

\* the transcript provider returned its list
TranscriptReturned == transcript_list # <<>> /\ transcript_list[1].kind = "ok"

(***************************************************************************)
(* The claims.                                                             *)
(***************************************************************************)

\* C1: when the scraping provider returns title and channel with a title that
\* is not empty, the API provider is not consulted in that fetch, whatever the
\* credential, and the metadata returned is the scraping provider's title and
\* channel.
C1_ShortCircuit ==
    PrimaryReturnedTitle =>
        /\ pc # "metadata_secondary"
        /\ ~SecondaryConsulted
        /\ fetched = <<[title |-> pytube[1].title, channel |-> pytube[1].author,
                        url |-> WatchPrefix \o video_id]>>

C1_Witness == PrimaryReturnedTitle /\ Credential /\ pc = "done"

\* C2: when the transcript provider raises or returns no entry, the run
\* writes no file, whatever the metadata fetch returned and whatever the flag.
C2_NoFileWithoutTranscript ==
    TranscriptFailed => output = {} /\ file_name = <<>>

C2_Witness ==
    /\ TranscriptFailed
    /\ transcript_list[1].kind = "ok"
    /\ pc = "done"
    /\ translate
    /\ fetched # <<>>

\* C3: when both metadata providers failed or the second one was unavailable,
\* the document written has the identifier as title, "Unknown" as channel and
\* the watch URL of the identifier as URL.
C3_DefaultMetadata ==
    (FetchReturned /\ PrimaryFailed /\ (~Credential \/ SecondaryFailed)) =>
        \A f \in output :
            LET d == SplitOn(f.content, NL)
            IN  /\ d[1] = <<"#", " ">> \o video_id
                /\ d[3] = ChannelLabel \o Unknown
                /\ d[5] = UrlLabel \o WatchPrefix \o video_id
                /\ metadata = <<[title |-> video_id, channel |-> Unknown,
                                 url |-> WatchPrefix \o video_id]>>

C3_Witness ==
    /\ PrimaryFailed
    /\ Credential
    /\ SecondaryFailed
    /\ pc = "done"
    /\ output # {}

\* C4: with translation on and the translation provider raising on exactly
\* one entry k of N, the assembly is not aborted and gives 2N lines: the line
\* of each entry followed by its translation line, which carries the error
\* placeholder for entry k and the provider's translation for the others.
C4_TranslationFailureIsLocal ==
    (translate /\ TranscriptReturned /\ Cardinality(tr_fail) = 1) =>
        LET es == transcript_list[1].entries
        IN  /\ exc # "get_transcript"
            /\ Len(lines) = 2 * Len(es)
            /\ \A i \in 1..Len(es) :
                /\ lines[2 * i - 1] = timestamp_link(video_id, es[i]) \o <<" ">> \o es[i].text
                /\ lines[2 * i] =
                      timestamp_link(video_id, es[i]) \o KoLabel
                      \o (IF i \in tr_fail THEN KoError ELSE Ko(es[i].text))

C4_Witness ==
    /\ translate
    /\ TranscriptReturned
    /\ Len(transcript_list[1].entries) >= 2
    /\ tr_fail = {1}
    /\ pc = "save"

\* C5: with translation off, a transcript of N entries gives N lines, line i
\* made of the timestamp label, the deep link and the text of entry i, and the
\* translation provider is not called.
C5_OneLinePerEntry ==
    (pc \in {"save", "done", "raised"} /\ ~translate /\ TranscriptReturned) =>
        LET es == transcript_list[1].entries
        IN  /\ Len(lines) = Len(es)
            /\ \A i \in 1..Len(es) :
                lines[i] = <<"[">> \o format_timestamp(es[i].start) \o <<"]", "(">>
                           \o WatchPrefix \o video_id \o <<"&", "t", "=">>
                           \o Decimal(es[i].start \div Scale) \o <<"s", ")", " ">>
                           \o es[i].text
            /\ \A j \in 1..Len(calls) : calls[j].fn \notin {"Translator", "translate"}

C5_Witness ==
    /\ ~translate
    /\ TranscriptReturned
    /\ Len(transcript_list[1].entries) >= 2
    /\ transcript_list[1].entries[1] # transcript_list[1].entries[2]
    /\ pc = "save"

\* C6: a run that wrote its report returns the name of the file written, and
\* the web application, once loaded, serves requests through the run.
C6_ReturnsFilename ==
    (pc = "done" /\ file_name # <<>>) => (ret = file_name /\ app # "ImportError")

\* C7: the metadata fetch raises nothing; it returns None exactly when the
\* first attempt failed (exception or empty title) and the second failed
\* (exception or no item) or was skipped for lack of a credential; otherwise
\* title and channel both come from the one provider that succeeded.
C7_FetchResult ==
    FetchReturned =>
        /\ exc \in {"", "get_transcript", "open"}
        /\ (fetched = <<>>) <=> (PrimaryFailed /\ (~Credential \/ SecondaryFailed))
        /\ ~Credential => ~SecondaryConsulted
        /\ fetched # <<>> =>
            \/ /\ ~PrimaryFailed
               /\ ~SecondaryConsulted
               /\ fetched[1].title = pytube[1].title
               /\ fetched[1].channel = pytube[1].author
            \/ /\ PrimaryFailed
               /\ Credential
               /\ ~SecondaryFailed
               /\ fetched[1].title = pyyoutube[1].items[1].title
               /\ fetched[1].channel = pyyoutube[1].items[1].channelTitle

C7_Witness ==
    /\ FetchReturned
    /\ PrimaryFailed
    /\ pytube[1].kind = "raise"
    /\ Credential
    /\ SecondaryFailed
    /\ fetched = <<>>
    /\ pc = "done"

\* the input holds a position at which the pattern matches
Matches(s) == \E i \in 1..Len(s) : MatchAt(s, i)

HasChar(s, c) == \E i \in 1..Len(s) : s[i] = c

LastIndexOf(s, c) == CHOOSE i \in 1..Len(s) : s[i] = c /\ \A j \in (i + 1)..Len(s) : s[j] # c

\* r is the group of IdLen characters that starts at position g of s
GroupAt(s, g, r) == g + IdLen - 1 <= Len(s) /\ r = SubSeq(s, g, g + IdLen - 1)

WellFormedId(r) == Len(r) = IdLen /\ \A k \in 1..Len(r) : r[k] \in IdChars

\* C8 as stated: on an input that matches, the result is the group that
\* follows a "v=" or the last "/" of the input.
C8_AfterLastSlash ==
    (resolved # Unset /\ Matches(input_str)) =>
        /\ WellFormedId(resolved)
        /\ \/ \E i \in 1..Len(input_str) :
                /\ i + 1 <= Len(input_str)
                /\ input_str[i] = "v"
                /\ input_str[i + 1] = "="
                /\ GroupAt(input_str, i + 2, resolved)
           \/ /\ HasChar(input_str, "/")
              /\ GroupAt(input_str, LastIndexOf(input_str, "/") + 1, resolved)

\* C8 amended: on an input that matches, the result is the group of the
\* leftmost position at which the pattern matches: IdLen characters of the
\* class that follow a "v=" or a "/" and are followed by ?, &, / or the end
\* of the input (or the line break that ends it), no position before it
\* matching.
C8_LeftmostMatch ==
    (resolved # Unset /\ Matches(input_str)) =>
        /\ WellFormedId(resolved)
        /\ \E i \in 1..Len(input_str) :
            /\ \/ input_str[i] = "/" /\ GroupAt(input_str, i + 1, resolved)
               \/ /\ i + 1 <= Len(input_str)
                  /\ input_str[i] = "v"
                  /\ input_str[i + 1] = "="
                  /\ GroupAt(input_str, i + 2, resolved)
            /\ MatchAt(input_str, i)
            /\ \A j \in 1..(i - 1) : ~MatchAt(input_str, j)

C8_Witness ==
    /\ resolved # Unset
    /\ \E i, j \in 1..Len(input_str) :
        i < j /\ MatchAt(input_str, i) /\ MatchAt(input_str, j)
    /\ HasChar(input_str, "/")
    /\ ~GroupAt(input_str, LastIndexOf(input_str, "/") + 1, resolved)

\* C9: the fields H, M, S of format(s) satisfy H*3600 + M*60 + S = s truncated
\* to whole seconds, M < 60, S < 60; M and S have two digits, H at least two
\* and as many as it needs; format(0), format(3661) and format(59.9) are
\* "00:00:00", "01:01:01" and "00:00:59".
C9_FieldsOfTimestamp ==
    stamp # Unset =>
        LET f == SplitOn(stamp, ":")
        IN  /\ Len(f) = 3
            /\ \A i \in 1..3 : f[i] # <<>> /\ \A k \in 1..Len(f[i]) : IsDigit(f[i][k])
            /\ ParseNat(f[1]) * 3600 + ParseNat(f[2]) * 60 + ParseNat(f[3])
                  = seconds \div Scale
            /\ ParseNat(f[2]) < 60
            /\ ParseNat(f[3]) < 60
            /\ Len(f[2]) = 2
            /\ Len(f[3]) = 2
            /\ Len(f[1]) >= 2
            /\ ParseNat(f[1]) >= 100 => f[1][1] # "0"
            /\ seconds = 0 => stamp = <<"0", "0", ":", "0", "0", ":", "0", "0">>
            /\ seconds = 3661 * Scale => stamp = <<"0", "1", ":", "0", "1", ":", "0", "1">>
            /\ seconds = (599 * Scale) \div 10 =>
                  stamp = <<"0", "0", ":", "0", "0", ":", "5", "9">>

C9_Witness ==
    /\ stamp # Unset
    /\ seconds >= 100 * 3600 * Scale
    /\ 2 * (seconds % Scale) >= Scale
    /\ Len(SplitOn(stamp, ":")[1]) = 3

\* C10: the file written reads back with the metadata title as its heading
\* and as many lines after the transcript heading as there are formatted
\* lines.
C10_RoundTrip ==
    \A f \in output :
        /\ HeadingOf(f.content) = metadata[1].title
        /\ BodyLineCount(f.content) = Len(lines)

====
